---- MODULE Spec2Model ----
(***************************************************************************)
(* The two Keycloak provisioning scripts of scripts/:                      *)
(*   "setup" = setup-keycloak-multitenant.py                               *)
(*   "fix"   = fix-keycloak-client.py                                      *)
(* Each script is a sequential process; one action per request it sends    *)
(* (together with the statements up to the next request).  The identity    *)
(* provider is the environment: its realm roles, users, the crm-web        *)
(* client, the client's protocol mappers and the realm representation.     *)
(***************************************************************************)
EXTENDS Integers, Sequences, FiniteSets, TLC

\* ------------------------------------------------------------- bounds
\* Number of consecutive runs of a script against the same provider.
MaxRuns == 2
\* Number of admin calls per behaviour that the provider may answer with an
\* unexpected error status.
MaxFaults == 1
\* Longest claims segment of a token fed to the decode procedure.
MaxSegLen == 24

\* ---------------------------------------------------------- constants
NEW_ROLES == <<"super_admin", "company_admin", "company_member">>
OLD_ROLES == <<"owner_admin", "dispatcher", "technician", "accountant", "viewer">>

\* The composite role every realm user holds; never touched by the scripts.
DefaultRole == "default-roles-crm-prod"

Range(s) == {s[k] : k \in DOMAIN s}
ScriptRoles == Range(NEW_ROLES) \cup Range(OLD_ROLES)

SuperName == "superadmin"
OfficeName == "office@bostonmasters.com"
AdminName == "admin@crm.local"
\* Another realm user whose username contains "admin@crm.local" and sorts
\* before it.
OtherName == "a.admin@crm.local"
UserNames == {SuperName, OfficeName, AdminName, OtherName}

\* Usernames in the order the provider lists search results.
UserOrder == <<OtherName, AdminName, OfficeName, SuperName>>

AttrKeys == {"company_id", "dept"}
\* An attribute value is a list of strings; the empty list is "key absent".
EmptyAttrs == [k \in AttrKeys |-> <<>>]

\* Statuses the provider may return on an unexpected failure.
FaultCodes == {403, 500}

VARIABLES
  script,     \* which script runs: "setup" or "fix"
  run,        \* 1 for the first run, 2 for a re-run, ...
  pc,         \* the statement the process is at
  exit,       \* "running", "ok" (status 0), "sysexit" (sys.exit(1)), "traceback"
  token,      \* the admin bearer token held by the process ("" before it has one)
  i,          \* loop index of the role loops
  code,       \* the variable `code` (0 before the first call)
  users_l,    \* the variable `users` (result of the last user lookup)
  role_obj,   \* the variable `role_obj` / `role` / `old_role`
  clients_l,  \* the variable `clients`
  realm_l,    \* the variable `realm`
  payload,    \* the variable `payload`: [data, pad] = data characters, then pad '='
  decoded,    \* the variable `decoded` (claims of the last decoded token)
  report,     \* what the last print statement reported
  verdict,    \* per verification check: what it printed ("none" before)
  roles,      \* provider: the realm's role names
  users,      \* provider: username -> [exists, roles, attrs]
  client,     \* provider: the crm-web client [exists, flags, mappers]
  realm,      \* provider: the realm representation
  budget,     \* environment: unexpected failures the provider may still produce
  faulted,    \* environment: some request was answered with an unexpected failure
  nreq,       \* history: number of admin API requests sent in this run
  nmut,       \* history: number of those that were mutating (POST/PUT/DELETE)
  tokenReqs,  \* history: number of admin token requests sent in this run
  auths,      \* history: Authorization header values the admin API requests carried
  start,      \* history: provider state at the start of this run
  prev        \* history: provider state at the end of the previous run

locals == <<i, code, users_l, role_obj, clients_l, realm_l, payload, decoded, report, verdict>>
provider == <<roles, users, client, realm>>
history == <<nreq, nmut, tokenReqs, auths, start, prev>>
env == <<budget, faulted>>
vars == <<script, run, pc, exit, token, locals, provider, env, history>>

\* -------------------------------------------------------------- api()
\* Headers api() builds: the Authorization header is attached only for a
\* truthy token.
ApiAuthNoToken(tok) == "none"

ApiAuth(tok) == IF tok # "" THEN tok ELSE "none"

ok(c) == c \in {200, 201, 204}

status_icon(c) == IF ok(c) THEN "ok" ELSE "warn"

\* Statuses a mutating call may come back with: the one the provider's state
\* determines, or an unexpected failure while the budget lasts.
Outcomes(natural) == {natural} \cup (IF budget > 0 THEN FaultCodes ELSE {})

\* if code == 409: "already exists" else: "<icon> created"
CreateReportNo409(c) == "created " \o status_icon(c)

CreateReport(c) == IF c = 409 THEN "already exists" ELSE "created " \o status_icon(c)

\* if code == 404: "not found (skip)" else: "<icon> removed"
RemoveReport(c) == IF c = 404 THEN "not found (skip)" ELSE "removed " \o status_icon(c)

\* Bookkeeping of one api() call answered with status c (natural status nat).
Sent(mutating) ==
  /\ nreq' = nreq + 1
  /\ nmut' = IF mutating THEN nmut + 1 ELSE nmut
  /\ auths' = auths \cup {ApiAuth(token)}
  /\ UNCHANGED <<tokenReqs, start, prev>>

Spend(c, nat) ==
  /\ budget' = IF c = nat THEN budget ELSE budget - 1
  /\ faulted' = (faulted \/ c # nat)

\* ------------------------------------------------------------ provider
NoRole == [isRep |-> FALSE, id |-> "", name |-> ""]
RoleRep(r) == [isRep |-> TRUE, id |-> r, name |-> r]

\* GET /roles/{name}: 200 with the representation, or 404 with an error body
\* (which api() returns as a string).
RoleGetCode(r) == IF r \in roles THEN 200 ELSE 404
RoleGetBody(r) == IF r \in roles THEN RoleRep(r) ELSE NoRole

\* POST /roles
RoleCreateCode(r) == IF r \in roles THEN 409 ELSE 201

\* DELETE /roles/{name}; deleting a role also drops it from every user.
RoleDeleteCode(r) == IF r \in roles THEN 204 ELSE 404
DropRole(r) == [u \in UserNames |-> [users[u] EXCEPT !.roles = @ \ {r}]]

UserAbsent == [exists |-> FALSE, roles |-> {}, attrs |-> EmptyAttrs]

\* The representation GET /users returns: the "attributes" key is present only
\* when the user has attributes.
UserRep(u) ==
  [id |-> u, username |-> u,
   hasAttributes |-> users[u].attrs # EmptyAttrs,
   attributes |-> users[u].attrs]

\* Whether username n matches the search string q.
Contains(n, q) == n = q \/ (q = AdminName /\ n = OtherName)
Matches(n, q, exact) == IF exact THEN n = q ELSE Contains(n, q)

RECURSIVE Filter(_, _, _)
Filter(order, q, exact) ==
  IF order = <<>> THEN <<>>
  ELSE LET n == Head(order)
           rest == Filter(Tail(order), q, exact)
       IN IF users[n].exists /\ Matches(n, q, exact) THEN <<UserRep(n)>> \o rest ELSE rest

\* GET /users?username=q[&exact=true]
UsersSearch(q, exact) == Filter(UserOrder, q, exact)

\* POST /users
UserCreateCode(u) == IF users[u].exists THEN 409 ELSE 201
Created(u, attrs) == [users EXCEPT ![u] = [exists |-> TRUE, roles |-> {DefaultRole}, attrs |-> attrs]]

\* POST / DELETE /users/{id}/role-mappings/realm with [{id, name}]
MappingCode(uid, rid) == IF users[uid].exists /\ rid \in roles THEN 204 ELSE 404
Granted(uid, rid) == [users EXCEPT ![uid].roles = @ \cup {rid}]
Revoked(uid, rid) == [users EXCEPT ![uid].roles = @ \ {rid}]

\* PUT /users/{id}: the attributes of the representation replace the stored
\* ones when the representation carries the key.
UserPutCode(uid) == IF users[uid].exists THEN 204 ELSE 404
Stored(uid, rep) ==
  IF rep.hasAttributes THEN [users EXCEPT ![uid].attrs = rep.attributes] ELSE users

\* GET /clients?clientId=crm-web
ClientRep ==
  [id |-> "crm-web-uuid", fullScopeAllowed |-> client.fullScopeAllowed,
   directAccessGrantsEnabled |-> client.directAccessGrantsEnabled,
   publicClient |-> client.publicClient]
ClientsSearch == IF client.exists THEN <<ClientRep>> ELSE <<>>

\* POST /clients/{id}/protocol-mappers/models
MapperCreateCode(m) == IF m \in client.mappers THEN 409 ELSE 201


\* GET /realms/{realm}: a freshly created realm (no password policy set).
RealmDefault ==
  [displayName |-> "CRM", accessTokenLifespan |-> 300, ssoSessionIdleTimeout |-> 1800,
   ssoSessionMaxLifespan |-> 36000, offlineSessionIdleTimeout |-> 2592000,
   bruteForceProtected |-> FALSE, maxFailureWaitSeconds |-> 900, failureFactor |-> 30,
   permanentLockout |-> FALSE]

NoPayload == [data |-> 0, pad |-> 0]

\* The claims of a token before any was decoded.
NoClaims == [hasRealmAccess |-> FALSE, roles |-> {}, realm_roles |-> {}, company_id |-> ""]

\* ---------------------------------------------------------------- Init
WithDefault(R) == R \cup {DefaultRole}

\* Role sets the realm may start with.
RoleFamily ==
  {WithDefault({}), WithDefault(Range(OLD_ROLES)), WithDefault(Range(NEW_ROLES)),
   WithDefault(ScriptRoles), WithDefault({"owner_admin", "company_admin"})}
AllRoleSets == {WithDefault(R) : R \in SUBSET ScriptRoles}

Present(rs, attrs) == [exists |-> TRUE, roles |-> WithDefault(rs), attrs |-> attrs]
SomeAttrs == [EmptyAttrs EXCEPT !["dept"] = <<"ops">>]
TaggedAttrs == [EmptyAttrs EXCEPT !["dept"] = <<"ops">>, !["company_id"] = <<"9">>]

ClientAbsent ==
  [exists |-> FALSE, fullScopeAllowed |-> FALSE, directAccessGrantsEnabled |-> FALSE,
   publicClient |-> FALSE, mappers |-> {}]
ClientPlain == [ClientAbsent EXCEPT !.exists = TRUE]
\* A client that still carries the flat "realm_roles" mapper of the first
\* deployment but is not allowed the full role scope.
ClientLegacy ==
  [exists |-> TRUE, fullScopeAllowed |-> FALSE, directAccessGrantsEnabled |-> TRUE,
   publicClient |-> TRUE, mappers |-> {"realm_roles"}]
ClientDone ==
  [exists |-> TRUE, fullScopeAllowed |-> TRUE, directAccessGrantsEnabled |-> TRUE,
   publicClient |-> TRUE, mappers |-> {"company_id"}]

ClientFamily == {ClientAbsent, ClientPlain, ClientLegacy, ClientDone}

\* Provider states with few role sets and many user / client situations.
WideUsers(R) ==
  { [u \in UserNames |->
       CASE u = SuperName -> s [] u = OfficeName -> o [] u = AdminName -> a [] OTHER -> x] :
      s \in {UserAbsent, Present({}, EmptyAttrs)},
      o \in {UserAbsent, Present({}, EmptyAttrs), Present({}, TaggedAttrs)},
      a \in {UserAbsent, Present({"owner_admin"} \cap R, EmptyAttrs),
             Present({"owner_admin"} \cap R, SomeAttrs)},
      x \in {UserAbsent, Present({"owner_admin"} \cap R, SomeAttrs)} }

\* Provider states with every role set and few user situations.
NarrowUsers(R) ==
  { [u \in UserNames |->
       CASE u = SuperName -> s [] u = AdminName -> a [] OTHER -> UserAbsent] :
      s \in {UserAbsent, Present({}, EmptyAttrs)},
      a \in {UserAbsent, Present({"owner_admin"} \cap R, EmptyAttrs)} }

\* Provider states the fix script is run against.
FixUsers(R) ==
  { [u \in UserNames |->
       CASE u = AdminName -> a [] u = OtherName -> x [] OTHER -> UserAbsent] :
      a \in {UserAbsent, Present({}, EmptyAttrs), Present({}, SomeAttrs)},
      x \in {UserAbsent, Present({}, SomeAttrs)} }

InitProcess ==
  /\ faulted = FALSE
  /\ run = 1
  /\ pc = "start"
  /\ exit = "running"
  /\ token = ""
  /\ i = 1
  /\ code = 0
  /\ users_l = <<>>
  /\ role_obj = NoRole
  /\ clients_l = <<>>
  /\ realm_l = RealmDefault
  /\ payload = NoPayload
  /\ decoded = NoClaims
  /\ report = "none"
  /\ verdict = [k \in {1, 2} |-> "none"]
  /\ nreq = 0
  /\ nmut = 0
  /\ tokenReqs = 0
  /\ auths = {}
  /\ start = <<roles, users, client, realm>>
  /\ prev = <<roles, users, client, realm>>

InitWide ==
  \/ /\ script = "setup"
     /\ roles \in RoleFamily
     /\ users \in WideUsers(roles)
     /\ client \in ClientFamily
  \/ /\ script = "fix"
     /\ roles \in {WithDefault({}), WithDefault(Range(OLD_ROLES))}
     /\ users \in FixUsers(roles)
     /\ client \in ClientFamily

InitNarrow ==
  /\ script = "setup"
  /\ roles \in AllRoleSets
  /\ users \in NarrowUsers(roles)
  /\ client = ClientPlain

Init ==
  /\ InitWide
  /\ realm = RealmDefault
  /\ budget = MaxFaults
  /\ InitProcess

\* ------------------------------------------------- both scripts: token
AdminTokens == {"tokA"}

Halt(how) == pc' = "halt" /\ exit' = how

\* The statement that follows the token request: step 1 (create roles) in
\* the setup script, step 2 (client lookup) in the fix script.
FirstStepClient(s) == IF s = "setup" THEN "s5_client" ELSE "f2_client"

FirstStep(s) == IF s = "setup" THEN "s1_create" ELSE "f2_client"

\* get_admin_token() / get_token(): one request to the master realm's token
\* endpoint; any failure of it is an unhandled exception.
GetAdminToken ==
  /\ pc = "start"
  /\ tokenReqs' = tokenReqs + 1
  /\ \E t \in AdminTokens \cup {""} :
       IF t = ""
       THEN /\ Halt("traceback")
            /\ faulted' = TRUE
            /\ UNCHANGED <<token, report>>
       ELSE /\ token' = t
            /\ faulted' = faulted
            /\ report' = "token acquired"
            /\ pc' = FirstStep(script)
            /\ exit' = exit
  /\ UNCHANGED <<script, run, i, code, users_l, role_obj, clients_l, realm_l, payload,
                 decoded, verdict, provider, budget, nreq, nmut, auths, start, prev>>

\* ------------------------------------------------------- setup: step 1
Next1Short(seq, more, after) == IF i < Len(seq) - 1 THEN more ELSE after

Next1(seq, more, after) == IF i < Len(seq) THEN more ELSE after

S1CreateRole ==
  /\ pc = "s1_create"
  /\ LET r == NEW_ROLES[i]
         nat == RoleCreateCode(r)
     IN \E c \in Outcomes(nat) :
          /\ code' = c
          /\ Spend(c, nat)
          /\ roles' = IF c = 201 THEN roles \cup {r} ELSE roles
          /\ report' = CreateReport(c)
  /\ pc' = Next1(NEW_ROLES, "s1_create", "s2_remove")
  /\ i' = Next1(NEW_ROLES, i + 1, 1)
  /\ Sent(TRUE)
  /\ UNCHANGED <<script, run, exit, token, users_l, role_obj, clients_l, realm_l, payload,
                 decoded, verdict, users, client, realm>>

\* ------------------------------------------------------- setup: step 2
S2RemoveRole ==
  /\ pc = "s2_remove"
  /\ LET r == OLD_ROLES[i]
         nat == RoleDeleteCode(r)
     IN \E c \in Outcomes(nat) :
          /\ code' = c
          /\ Spend(c, nat)
          /\ roles' = IF c = 204 THEN roles \ {r} ELSE roles
          /\ users' = IF c = 204 THEN DropRole(r) ELSE users
          /\ report' = RemoveReport(c)
  /\ pc' = Next1(OLD_ROLES, "s2_remove", "s3_create")
  /\ i' = Next1(OLD_ROLES, i + 1, 1)
  /\ Sent(TRUE)
  /\ UNCHANGED <<script, run, exit, token, users_l, role_obj, clients_l, realm_l, payload,
                 decoded, verdict, client, realm>>

\* ------------------------------------------------- shared step shapes
\* POST /users with a user definition carrying the attributes attrs.
CreateUser(at, name, attrs, to) ==
  /\ pc = at
  /\ LET nat == UserCreateCode(name)
     IN \E c \in Outcomes(nat) :
          /\ code' = c
          /\ Spend(c, nat)
          /\ users' = IF c = 201 THEN Created(name, attrs) ELSE users
          /\ report' = CreateReport(c)
  /\ pc' = to
  /\ Sent(TRUE)
  /\ UNCHANGED <<script, run, exit, token, i, users_l, role_obj, clients_l, realm_l,
                 payload, decoded, verdict, roles, client, realm>>

\* code, users = api('GET', .../users?username=q[&exact=true]); if users: ...
FindUser(at, q, exact, found, missing, missingReport) ==
  /\ pc = at
  /\ code' = 200
  /\ users_l' = UsersSearch(q, exact)
  /\ pc' = IF users_l' # <<>> THEN found ELSE missing
  /\ report' = IF users_l' # <<>> THEN report ELSE missingReport
  /\ Sent(FALSE)
  /\ UNCHANGED <<script, run, exit, token, i, role_obj, clients_l, realm_l,
                 payload, decoded, verdict, provider, env>>

\* code, role_obj = api('GET', .../roles/{r})
GetRole(at, r, to) ==
  /\ pc = at
  /\ code' = RoleGetCode(r)
  /\ role_obj' = RoleGetBody(r)
  /\ pc' = to
  /\ Sent(FALSE)
  /\ UNCHANGED <<script, run, exit, token, i, users_l, clients_l, realm_l,
                 payload, decoded, report, verdict, provider, env>>

\* api('POST', .../users/{users[0].id}/role-mappings/realm,
\*     data=[{'id': role_obj['id'], 'name': r}]): building the payload indexes
\* role_obj, which is the error body (a string) after a failed lookup.
IndexableAlways(obj) == TRUE

Indexable(obj) == obj.isRep

AssignRole(at, to) ==
  /\ pc = at
  /\ IF ~Indexable(role_obj)
     THEN /\ Halt("traceback")
          /\ UNCHANGED <<code, report, users, env, history>>
     ELSE /\ LET uid == users_l[1].id
                 nat == MappingCode(uid, role_obj.id)
             IN \E c \in Outcomes(nat) :
                  /\ code' = c
                  /\ Spend(c, nat)
                  /\ users' = IF c = 204 THEN Granted(uid, role_obj.id) ELSE users
                  /\ report' = "role assigned " \o status_icon(c)
          /\ pc' = to
          /\ exit' = exit
          /\ Sent(TRUE)
  /\ UNCHANGED <<script, run, token, i, users_l, role_obj, clients_l, realm_l,
                 payload, decoded, verdict, roles, client, realm>>

\* user_data['attributes'] = user_data.get('attributes', {});
\* user_data['attributes']['company_id'] = ['1']
MergeCompanyIdOverwrite(rep) ==
  [rep EXCEPT !.hasAttributes = TRUE,
              !.attributes = [EmptyAttrs EXCEPT !["company_id"] = <<"1">>]]

MergeCompanyIdAppend(rep) ==
  [rep EXCEPT !.hasAttributes = TRUE,
              !.attributes = [(IF rep.hasAttributes THEN rep.attributes ELSE EmptyAttrs)
                                EXCEPT !["company_id"] = @ \o <<"1">>]]

MergeCompanyId(rep) ==
  [rep EXCEPT !.hasAttributes = TRUE,
              !.attributes = [(IF rep.hasAttributes THEN rep.attributes ELSE EmptyAttrs)
                                EXCEPT !["company_id"] = <<"1">>]]

\* user_data = users[0]; merge; api('PUT', .../users/{id}, data=user_data)
PutAttrs(at, to) ==
  /\ pc = at
  /\ LET uid == users_l[1].id
         rep == MergeCompanyId(users_l[1])
         nat == UserPutCode(uid)
     IN /\ users_l' = [users_l EXCEPT ![1] = rep]
        /\ \E c \in Outcomes(nat) :
             /\ code' = c
             /\ Spend(c, nat)
             /\ users' = IF c = 204 THEN Stored(uid, rep) ELSE users
             /\ report' = "company_id attribute set " \o status_icon(c)
  /\ pc' = to
  /\ Sent(TRUE)
  /\ UNCHANGED <<script, run, exit, token, i, role_obj, clients_l, realm_l,
                 payload, decoded, verdict, roles, client, realm>>

\* ------------------------------------------------------- setup: step 3
S3CreateSuper == CreateUser("s3_create", SuperName, EmptyAttrs, "s3_find")
S3FindSuper == FindUser("s3_find", SuperName, TRUE, "s3_role", "s4_create", report)
S3GetRole == GetRole("s3_role", "super_admin", "s3_assign")
S3Assign == AssignRole("s3_assign", "s4_create")

\* ------------------------------------------------------- setup: step 4
S4CreateOffice ==
  CreateUser("s4_create", OfficeName, [EmptyAttrs EXCEPT !["company_id"] = <<"1">>], "s4_find")
S4FindOffice == FindUser("s4_find", OfficeName, TRUE, "s4_role", "s5_client", report)
S4GetRole == GetRole("s4_role", "company_admin", "s4_assign")
S4Assign == AssignRole("s4_assign", "s4_put")
S4PutAttrs == PutAttrs("s4_put", "s5_client")

\* ------------------------------------------------------- setup: step 5
\* code, clients = api('GET', ...clients?clientId=crm-web);
\* client_uuid = clients[0]['id']   (IndexError on an empty list)
S5FindClientSkip(cl) == "s5_mapper"

S5AfterLookup(cl) == IF cl = <<>> THEN "halt" ELSE "s5_mapper"

S5FindClient ==
  /\ pc = "s5_client"
  /\ code' = 200
  /\ clients_l' = ClientsSearch
  /\ pc' = S5AfterLookup(clients_l')
  /\ exit' = IF pc' = "halt" THEN "traceback" ELSE exit
  /\ Sent(FALSE)
  /\ UNCHANGED <<script, run, token, i, users_l, role_obj, realm_l, payload, decoded,
                 report, verdict, provider, env>>

S5CreateMapper ==
  /\ pc = "s5_mapper"
  /\ LET nat == MapperCreateCode("company_id")
     IN \E c \in Outcomes(nat) :
          /\ code' = c
          /\ Spend(c, nat)
          /\ client' = IF c = 201 THEN [client EXCEPT !.mappers = @ \cup {"company_id"}]
                                  ELSE client
          /\ report' = CreateReport(c)
  /\ pc' = "s6_get"
  /\ Sent(TRUE)
  /\ UNCHANGED <<script, run, exit, token, i, users_l, role_obj, clients_l, realm_l,
                 payload, decoded, verdict, roles, users, realm>>

\* ------------------------------------------------------- setup: step 6
realm_update ==
  [accessTokenLifespan |-> 900, ssoSessionIdleTimeout |-> 1800,
   ssoSessionMaxLifespan |-> 43200, offlineSessionIdleTimeout |-> 2592000,
   passwordPolicy |-> "length(8) and maxLength(128) and notUsername",
   bruteForceProtected |-> TRUE, maxFailureWaitSeconds |-> 900, failureFactor |-> 5,
   permanentLockout |-> FALSE]

\* {**a, **b}
OverlayFirstWins(a, b) ==
  [k \in DOMAIN a \cup DOMAIN b |-> IF k \in DOMAIN a THEN a[k] ELSE b[k]]

Overlay(a, b) ==
  [k \in DOMAIN a \cup DOMAIN b |-> IF k \in DOMAIN b THEN b[k] ELSE a[k]]

S6GetRealm ==
  /\ pc = "s6_get"
  /\ code' = 200
  /\ realm_l' = realm
  /\ pc' = "s6_put"
  /\ Sent(FALSE)
  /\ UNCHANGED <<script, run, exit, token, i, users_l, role_obj, clients_l, payload,
                 decoded, report, verdict, provider, env>>

S6PutRealm ==
  /\ pc = "s6_put"
  /\ \E c \in Outcomes(204) :
       /\ code' = c
       /\ Spend(c, 204)
       /\ realm' = IF c = 204 THEN Overlay(realm_l, realm_update) ELSE realm
       /\ report' = "realm policies updated " \o status_icon(c)
  /\ pc' = "s7_find"
  /\ Sent(TRUE)
  /\ UNCHANGED <<script, run, exit, token, i, users_l, role_obj, clients_l, realm_l,
                 payload, decoded, verdict, roles, users, client>>

\* ------------------------------------------------------- setup: step 7
S7FindAdmin ==
  FindUser("s7_find", AdminName, FALSE, "s7_role", "s8_admin", "not found (skip)")
S7GetRole == GetRole("s7_role", "company_admin", "s7_assign")
S7Assign == AssignRole("s7_assign", "s7_old")

\* code, old_role = api('GET', .../roles/owner_admin); if code == 200: ...
S7GetOldRole ==
  /\ pc = "s7_old"
  /\ code' = RoleGetCode("owner_admin")
  /\ role_obj' = RoleGetBody("owner_admin")
  /\ pc' = IF code' = 200 THEN "s7_remove" ELSE "s7_put"
  /\ Sent(FALSE)
  /\ UNCHANGED <<script, run, exit, token, i, users_l, clients_l, realm_l,
                 payload, decoded, report, verdict, provider, env>>

\* api('DELETE', .../users/{id}/role-mappings/realm, data=[{id, name}]): the
\* result is discarded, `code` keeps the status of the lookup.
S7RemoveOld ==
  /\ pc = "s7_remove"
  /\ LET uid == users_l[1].id
         nat == MappingCode(uid, role_obj.id)
     IN \E c \in Outcomes(nat) :
          /\ Spend(c, nat)
          /\ users' = IF c = 204 THEN Revoked(uid, role_obj.id) ELSE users
  /\ report' = "old owner_admin removed"
  /\ pc' = "s7_put"
  /\ Sent(TRUE)
  /\ UNCHANGED <<script, run, exit, token, i, code, users_l, role_obj, clients_l, realm_l,
                 payload, decoded, verdict, roles, client, realm>>

S7PutAttrs == PutAttrs("s7_put", "s8_admin")

\* ------------------------------------------------------ token checks
\* payload += '=' * (4 - len(payload) % 4)
PadCountToMultiple(n) == (4 - (n % 4)) % 4

PadCount(n) == 4 - (n % 4)

\* base64.b64decode of n data characters followed by k '=' characters:
\* n may not be 1 more than a multiple of 4, missing padding is an error and
\* excess padding is ignored.
B64Ok(n, k) == n % 4 # 1 /\ k >= (4 - (n % 4)) % 4

\* Claims-segment lengths of the tokens the realm's token endpoint returns.
SegLens == {21, 22, 24}

\* The password grant for user u on client crm-web; pw: the password matches.
GrantOK(u, pw) ==
  /\ client.exists /\ client.directAccessGrantsEnabled /\ client.publicClient
  /\ users[u].exists /\ pw

\* The claims of the access token issued to u.  realm_access is present when
\* the client has the full role scope; the flat realm_roles claim is emitted by
\* the legacy mapper, limited to the client's scope or not (flatScoped).
TokenClaims(u, flatScoped) ==
  [hasRealmAccess |-> client.fullScopeAllowed,
   roles |-> IF client.fullScopeAllowed THEN users[u].roles ELSE {},
   realm_roles |-> IF "realm_roles" \in client.mappers
                      /\ (client.fullScopeAllowed \/ ~flatScoped)
                   THEN users[u].roles ELSE {},
   company_id |-> IF "company_id" \in client.mappers /\ users[u].attrs["company_id"] # <<>>
                  THEN users[u].attrs["company_id"][1] ELSE ""]

\* roles = decoded.get('realm_access', {}).get('roles', []); r in roles
SetupRolePresent(d, r) == r \in d.roles

\* all_roles = realm_access['roles'] (if present) united with realm_roles
FixRolePresentAccessOnly(d, r) == r \in (IF d.hasRealmAccess THEN d.roles ELSE {})

FixRolePresent(d, r) ==
  r \in (IF d.hasRealmAccess THEN d.roles ELSE {}) \cup d.realm_roles

AdminVerdict(d) ==
  IF SetupRolePresent(d, "company_admin") /\ d.company_id # "" THEN "verified"
  ELSE IF SetupRolePresent(d, "company_admin") THEN "company_id missing"
  ELSE "role missing"

SuperVerdict(d) == IF SetupRolePresent(d, "super_admin") THEN "verified" ELSE "role missing"

FixVerdict(d) == IF FixRolePresent(d, "owner_admin") THEN "found" ELSE "not found"

\* ------------------------------------------------------- setup: step 8
\* What the except clause of a verification block leads to.
S8OnFailureRetry(to) == "s7_find"

S8OnFailure(to) == to

\* try: grant, split, pad, decode, check; except Exception: report the failure.
S8Verify(at, k, u, to) ==
  /\ pc = at
  /\ \E pw \in BOOLEAN, n \in SegLens, flatScoped \in BOOLEAN :
       LET granted == GrantOK(u, pw)
           padded == [data |-> n, pad |-> PadCount(n)]
           good == granted /\ B64Ok(padded.data, padded.pad)
           d == TokenClaims(u, flatScoped)
           v == IF ~good THEN "failed"
                ELSE IF k = 1 THEN AdminVerdict(d) ELSE SuperVerdict(d)
       IN /\ payload' = IF granted THEN padded ELSE payload
          /\ decoded' = IF good THEN d ELSE decoded
          /\ verdict' = [verdict EXCEPT ![k] = v]
          /\ pc' = IF good THEN to ELSE S8OnFailure(to)
  /\ report' = IF pc' = "done" THEN "setup complete" ELSE verdict'[k]
  /\ exit' = IF pc' = "done" THEN "ok" ELSE IF pc' = "halt" THEN "traceback" ELSE exit
  /\ UNCHANGED <<script, run, token, i, code, users_l, role_obj, clients_l, realm_l,
                 provider, env, history>>

S8VerifyAdmin == S8Verify("s8_admin", 1, AdminName, "s8_super")
\* followed by the closing summary
S8VerifySuper == S8Verify("s8_super", 2, SuperName, "done")

\* ----------------------------------------------------------------- fix
\* step 2: if not clients: sys.exit(1)
F2FindClient ==
  /\ pc = "f2_client"
  /\ code' = 200
  /\ clients_l' = ClientsSearch
  /\ IF clients_l' = <<>>
     THEN Halt("sysexit") /\ report' = "client not found"
     ELSE pc' = "f3_put" /\ exit' = exit /\ report' = "client uuid"
  /\ Sent(FALSE)
  /\ UNCHANGED <<script, run, token, i, users_l, role_obj, realm_l, payload, decoded,
                 verdict, provider, env>>

\* step 3: overlay the three flags on clients[0] and PUT it back
F3PutClient ==
  /\ pc = "f3_put"
  /\ LET rep == [clients_l[1] EXCEPT !.fullScopeAllowed = TRUE,
                                     !.directAccessGrantsEnabled = TRUE,
                                     !.publicClient = TRUE]
         nat == IF client.exists THEN 204 ELSE 404
     IN /\ clients_l' = <<rep>>
        /\ \E c \in Outcomes(nat) :
             /\ code' = c
             /\ Spend(c, nat)
             /\ client' = IF c = 204
                          THEN [client EXCEPT
                                  !.fullScopeAllowed = rep.fullScopeAllowed,
                                  !.directAccessGrantsEnabled = rep.directAccessGrantsEnabled,
                                  !.publicClient = rep.publicClient]
                          ELSE client
             /\ report' = IF c = 204 THEN "client updated ok" ELSE "client update failed"
  /\ pc' = "f4_find"
  /\ Sent(TRUE)
  /\ UNCHANGED <<script, run, exit, token, i, users_l, role_obj, realm_l, payload, decoded,
                 verdict, roles, users, realm>>

\* step 4: if not users: sys.exit(1)
F4FindUser ==
  /\ pc = "f4_find"
  /\ code' = 200
  /\ users_l' = UsersSearch(AdminName, FALSE)
  /\ IF users_l' = <<>>
     THEN Halt("sysexit") /\ report' = "user not found"
     ELSE pc' = "f5_role" /\ exit' = exit /\ report' = "user id"
  /\ Sent(FALSE)
  /\ UNCHANGED <<script, run, token, i, role_obj, clients_l, realm_l, payload, decoded,
                 verdict, provider, env>>

\* step 5: code, role = api('GET', .../roles/owner_admin); role_id = role['id']
F5GetRole ==
  /\ pc = "f5_role"
  /\ code' = RoleGetCode("owner_admin")
  /\ role_obj' = RoleGetBody("owner_admin")
  /\ IF Indexable(role_obj')
     THEN pc' = "f6_assign" /\ exit' = exit /\ report' = "role id"
     ELSE Halt("traceback") /\ report' = report
  /\ Sent(FALSE)
  /\ UNCHANGED <<script, run, token, i, users_l, clients_l, realm_l, payload, decoded,
                 verdict, provider, env>>

\* step 6
F6Assign ==
  /\ pc = "f6_assign"
  /\ LET uid == users_l[1].id
         nat == MappingCode(uid, role_obj.id)
     IN \E c \in Outcomes(nat) :
          /\ code' = c
          /\ Spend(c, nat)
          /\ users' = IF c = 204 THEN Granted(uid, role_obj.id) ELSE users
          /\ report' = IF c = 204 THEN "role assigned ok" ELSE "role assigned warn"
  /\ pc' = "f7_verify"
  /\ Sent(TRUE)
  /\ UNCHANGED <<script, run, exit, token, i, users_l, role_obj, clients_l, realm_l,
                 payload, decoded, verdict, roles, client, realm>>

\* step 7: grant, split, pad, decode, check, with no exception handler;
\* followed by the closing "Done!".
F7Verify ==
  /\ pc = "f7_verify"
  /\ \E pw \in BOOLEAN, n \in SegLens, flatScoped \in BOOLEAN :
       LET granted == GrantOK(AdminName, pw)
           padded == [data |-> n, pad |-> PadCount(n)]
           good == granted /\ B64Ok(padded.data, padded.pad)
           d == TokenClaims(AdminName, flatScoped)
       IN /\ payload' = IF granted THEN padded ELSE payload
          /\ decoded' = IF good THEN d ELSE decoded
          /\ verdict' = IF good THEN [verdict EXCEPT ![1] = FixVerdict(d)] ELSE verdict
          /\ pc' = IF good THEN "done" ELSE "halt"
          /\ exit' = IF good THEN "ok" ELSE "traceback"
          /\ report' = IF good THEN "done" ELSE report
  /\ UNCHANGED <<script, run, token, i, code, users_l, role_obj, clients_l, realm_l,
                 provider, env, history>>

\* -------------------------------------------------------------- re-run
\* The script is started again against the provider state the last run left.
Rerun ==
  /\ pc = "done"
  /\ run < MaxRuns
  /\ run' = run + 1
  /\ pc' = "start"
  /\ exit' = "running"
  /\ token' = ""
  /\ i' = 1
  /\ code' = 0
  /\ users_l' = <<>>
  /\ role_obj' = NoRole
  /\ clients_l' = <<>>
  /\ realm_l' = RealmDefault
  /\ payload' = NoPayload
  /\ decoded' = NoClaims
  /\ report' = "none"
  /\ verdict' = [k \in {1, 2} |-> "none"]
  /\ nreq' = 0
  /\ nmut' = 0
  /\ tokenReqs' = 0
  /\ auths' = {}
  /\ start' = <<roles, users, client, realm>>
  /\ prev' = <<roles, users, client, realm>>
  /\ UNCHANGED <<script, provider, env>>

\* ------------------------------------------------- the decode procedure
\* payload += '=' * (4 - len(payload) % 4), on a segment just split off a token
DecodePad ==
  /\ pc = "d_pad"
  /\ payload' = [payload EXCEPT !.pad = PadCount(payload.data)]
  /\ pc' = "d_b64"
  /\ UNCHANGED <<script, run, exit, token, i, code, users_l, role_obj, clients_l, realm_l,
                 decoded, report, verdict, provider, env, history>>

\* base64.b64decode(payload)
DecodeB64 ==
  /\ pc = "d_b64"
  /\ report' = IF B64Ok(payload.data, payload.pad) THEN "decoded" ELSE "decode error"
  /\ pc' = "d_done"
  /\ UNCHANGED <<script, run, exit, token, i, code, users_l, role_obj, clients_l, realm_l,
                 payload, decoded, verdict, provider, env, history>>

Next ==
  \/ GetAdminToken
  \/ S1CreateRole
  \/ S2RemoveRole
  \/ S3CreateSuper
  \/ S3FindSuper
  \/ S3GetRole
  \/ S3Assign
  \/ S4CreateOffice
  \/ S4FindOffice
  \/ S4GetRole
  \/ S4Assign
  \/ S4PutAttrs
  \/ S5FindClient
  \/ S5CreateMapper
  \/ S6GetRealm
  \/ S6PutRealm
  \/ S7FindAdmin
  \/ S7GetRole
  \/ S7Assign
  \/ S7GetOldRole
  \/ S7RemoveOld
  \/ S7PutAttrs
  \/ S8VerifyAdmin
  \/ S8VerifySuper
  \/ F2FindClient
  \/ F3PutClient
  \/ F4FindUser
  \/ F5GetRole
  \/ F6Assign
  \/ F7Verify

Spec == Init /\ [][Next]_vars

\* Two runs in a row against a provider that answers every call by its state.
InitTwice ==
  /\ \/ InitWide /\ budget \in {0, MaxFaults}
     \/ InitNarrow /\ budget = 0
  /\ realm = RealmDefault
  /\ InitProcess

NextTwice == Next \/ Rerun

SpecTwice == InitTwice /\ [][NextTwice]_vars

\* The decode procedure of both scripts on claims segments of every length up
\* to MaxSegLen.
InitDecode ==
  /\ script \in {"setup", "fix"}
  /\ roles = WithDefault(Range(NEW_ROLES))
  /\ users = [u \in UserNames |-> UserAbsent]
  /\ client = ClientDone
  /\ realm = RealmDefault
  /\ budget = 0
  /\ faulted = FALSE
  /\ run = 1
  /\ exit = "running"
  /\ token = "tokA"
  /\ i = 1
  /\ code = 0
  /\ users_l = <<>>
  /\ role_obj = NoRole
  /\ clients_l = <<>>
  /\ realm_l = RealmDefault
  /\ decoded = NoClaims
  /\ report = "none"
  /\ verdict = [k \in {1, 2} |-> "none"]
  /\ nreq = 0
  /\ nmut = 0
  /\ tokenReqs = 1
  /\ auths = {}
  /\ start = <<roles, users, client, realm>>
  /\ prev = <<roles, users, client, realm>>
  /\ pc = "d_pad"
  /\ payload \in {[data |-> n, pad |-> 0] : n \in 0..MaxSegLen}

NextDecode == DecodePad \/ DecodeB64

SpecDecode == InitDecode /\ [][NextDecode]_vars

\* =============================================================== claims
Aborted == exit \in {"sysexit", "traceback"}
OldRoleNames == {"owner_admin", "dispatcher", "technician", "accountant", "viewer"}
NewRoleNames == {"super_admin", "company_admin", "company_member"}

\* C1: when the setup script is run again on the provider state a completed
\* run left, and the provider answers every call by its state, the second run
\* does not abort and ends with the provider state the first run ended with.
C1_Idempotent ==
  (script = "setup" /\ run > 1 /\ ~faulted) =>
     /\ ~Aborted
     /\ pc # "halt"
     /\ (pc = "done" => <<roles, users, client, realm>> = prev)

\* A second setup run has completed after a first run that created users,
\* roles, the mapper and the realm policy.
C1_Witness ==
  /\ script = "setup" /\ run = 2 /\ pc = "done" /\ exit = "ok" /\ ~faulted
  /\ users[AdminName].exists
  /\ <<roles, users, client, realm>> = prev
  /\ "company_id" \in client.mappers
  /\ realm.failureFactor = 5

\* C2: once a setup run is past its two role loops (the provider answering by
\* its state), the realm's roles are the roles at the start of the run, minus
\* the five old names, plus the three new names.
C2_RoleConvergence ==
  (script = "setup" /\ ~faulted /\ pc \notin {"start", "s1_create", "s2_remove"}) =>
     roles = (start[1] \ OldRoleNames) \cup NewRoleNames

\* A run that started with some old and some new roles has finished.
C2_Witness ==
  /\ script = "setup" /\ pc = "done" /\ ~faulted
  /\ start[1] = {DefaultRole, "dispatcher", "viewer", "company_member"}
  /\ roles = {DefaultRole} \cup NewRoleNames

\* C3: a create answered 409 (role, user, mapper) and a role delete answered
\* 404 leave the run running, are reported as "already exists" / "not found
\* (skip)", and the script goes on to the next name or the next step.
C3_ConflictTolerated ==
  [][ /\ (pc = "s1_create" /\ code' = 409) =>
            /\ exit' = "running" /\ report' = "already exists"
            /\ IF i < 3 THEN pc' = "s1_create" /\ i' = i + 1 ELSE pc' = "s2_remove"
      /\ (pc = "s2_remove" /\ code' = 404) =>
            /\ exit' = "running" /\ report' = "not found (skip)"
            /\ IF i < 5 THEN pc' = "s2_remove" /\ i' = i + 1 ELSE pc' = "s3_create"
      /\ (pc = "s3_create" /\ code' = 409) =>
            exit' = "running" /\ report' = "already exists" /\ pc' = "s3_find"
      /\ (pc = "s4_create" /\ code' = 409) =>
            exit' = "running" /\ report' = "already exists" /\ pc' = "s4_find"
      /\ (pc = "s5_mapper" /\ code' = 409) =>
            exit' = "running" /\ report' = "already exists" /\ pc' = "s6_get"
    ]_vars

\* The mapper create was just answered 409 in a run whose realm already had
\* the three new roles, none of the old ones, and both users.
C3_Witness ==
  /\ pc = "s6_get" /\ code = 409 /\ report = "already exists" /\ exit = "running"
  /\ ~faulted
  /\ start[1] = {DefaultRole} \cup NewRoleNames
  /\ start[2][SuperName].exists /\ start[2][OfficeName].exists

\* C4: when the crm-web lookup returns an empty list the run ends there with
\* a non-zero exit, and a run that has ended takes no further step (sends no
\* request, changes nothing).
C4_ClientMissingFatal ==
  [][ /\ (pc \in {"s5_client", "f2_client"} /\ clients_l' = <<>>) =>
            pc' = "halt" /\ exit' \in {"sysexit", "traceback"}
      /\ pc # "halt"
    ]_vars

\* The setup script has stopped at its client lookup.
C4_Witness ==
  /\ script = "setup" /\ pc = "halt" /\ Aborted
  /\ token # "" /\ code = 200 /\ clients_l = <<>> /\ ~client.exists
  /\ nmut > 8

\* C5: a company_id update that succeeds (PUT answered 204) leaves every other
\* attribute of the updated user as it was and sets company_id to ['1'].
C5_AttrMergeKeeps ==
  [][ (pc \in {"s4_put", "s7_put"} /\ code' = 204) =>
        LET uid == users_l[1].id
        IN /\ users'[uid].attrs["company_id"] = <<"1">>
           /\ \A k \in AttrKeys \ {"company_id"} : users'[uid].attrs[k] = users[uid].attrs[k]
    ]_vars

\* office@bostonmasters.com had dept and another company_id, and was updated.
C5_Witness ==
  /\ pc = "s5_client" /\ code = 204
  /\ start[2][OfficeName].attrs = TaggedAttrs
  /\ users[OfficeName].attrs["dept"] = <<"ops">>
  /\ users[OfficeName].attrs["company_id"] = <<"1">>

\* C6 as stated: the padding appended to a segment of n characters is
\* (4 - n mod 4) mod 4 characters, none for a multiple of 4.
C6_PadsToNextMultiple ==
  pc = "d_b64" =>
     /\ payload.pad = (4 - (payload.data % 4)) % 4
     /\ (payload.data + payload.pad) % 4 = 0

\* C6 amended: the padding appended is 4 - n mod 4 characters (between 1 and
\* 4: 3 for n = 21, 4 for a multiple of 4); the padded length is a multiple of 4.
C6_PadCount ==
  pc = "d_b64" =>
     /\ payload.pad = 4 - (payload.data % 4)
     /\ payload.pad \in 1..4
     /\ (payload.data + payload.pad) % 4 = 0
     /\ (payload.data = 21 => payload.pad = 3)
     /\ (payload.data % 4 = 0 => payload.pad = 4)

\* A segment of 24 characters was padded.
C6_Witness == pc = "d_b64" /\ payload.data = 24 /\ payload.pad = 4

\* C7: a verification step never ends the run with an unhandled error; the
\* next check or the closing report follows it.
C7_VerificationContained ==
  [][ (pc \in {"s8_admin", "s8_super", "f7_verify"}) =>
        exit' # "traceback" /\ pc' # "halt" ]_vars

\* C8: no step of the provisioning phase aborts a run in which a mutating
\* call was answered with an unexpected error status, unless an entity the
\* scripts do not create themselves is missing from the realm: the client,
\* or for the fix script the user or the owner_admin role.
C8_FaultsNonFatal ==
  [][ (Aborted' /\ faulted /\ pc \notin {"start", "s8_admin", "s8_super", "f7_verify"}) =>
        \/ ~client.exists
        \/ script = "fix" /\ (UsersSearch(AdminName, FALSE) = <<>> \/ "owner_admin" \notin roles)
    ]_vars

\* C9: one admin token request per run, before any admin API request; when it
\* fails the run is over with no API request sent; every API request carries
\* the token it returned.
C9_AdminSessionFirst ==
  /\ tokenReqs <= 1
  /\ (pc # "start" => tokenReqs = 1)
  /\ (nreq > 0 => tokenReqs = 1 /\ token # "")
  /\ (tokenReqs = 1 /\ token = "" => pc = "halt" /\ exit = "traceback" /\ nreq = 0)
  /\ auths \subseteq {token}
  /\ (nreq > 0 => auths = {token})

\* A complete setup run sent its requests with the token.
C9_Witness == script = "setup" /\ pc = "done" /\ nreq > 20 /\ auths = {"tokA"} /\ tokenReqs = 1

\* C10 as stated: every check reports the role present exactly when it is in
\* realm_access.roles or in realm_roles.
C10_UnionEverywhere ==
  /\ (script = "setup" /\ pc = "s8_super" /\ verdict[1] # "failed") =>
        ((verdict[1] # "role missing") <=>
            "company_admin" \in decoded.roles \cup decoded.realm_roles)
  /\ (script = "setup" /\ pc = "done" /\ verdict[2] # "failed") =>
        ((verdict[2] = "verified") <=>
            "super_admin" \in decoded.roles \cup decoded.realm_roles)
  /\ (script = "fix" /\ pc = "done") =>
        ((verdict[1] = "found") <=>
            "owner_admin" \in decoded.roles \cup decoded.realm_roles)

\* C10 amended: the fix script reports owner_admin present exactly when it is
\* in realm_access.roles or in realm_roles; the setup script's two checks
\* report the role present exactly when it is in realm_access.roles.
C10_UnionInFixOnly ==
  /\ (script = "setup" /\ pc = "s8_super" /\ verdict[1] # "failed") =>
        ((verdict[1] # "role missing") <=> "company_admin" \in decoded.roles)
  /\ (script = "setup" /\ pc = "done" /\ verdict[2] # "failed") =>
        ((verdict[2] = "verified") <=> "super_admin" \in decoded.roles)
  /\ (script = "fix" /\ pc = "done") =>
        ((verdict[1] = "found") <=>
            "owner_admin" \in decoded.roles \cup decoded.realm_roles)

\* The fix script found owner_admin in a token that carries it only in
\* realm_roles.
C10_Witness ==
  /\ script = "fix" /\ pc = "done" /\ verdict[1] = "found"
  /\ ~decoded.hasRealmAccess
  /\ "owner_admin" \notin decoded.roles
  /\ "owner_admin" \in decoded.realm_roles

\* C11: after the provisioning steps of a setup run in which every admin call
\* was answered with a success or no-op status, on a realm where
\* admin@crm.local exists, admin@crm.local holds company_admin and
\* company_id = ['1'], superadmin holds super_admin and crm-web has a
\* company_id mapper; the verification of admin@crm.local then reports success.
C11_TargetStateVerified ==
  (script = "setup" /\ ~faulted /\ start[2][AdminName].exists) =>
     /\ (pc \in {"s8_admin", "s8_super", "done"}) =>
           /\ "company_admin" \in users[AdminName].roles
           /\ users[AdminName].attrs["company_id"] = <<"1">>
           /\ "super_admin" \in users[SuperName].roles
           /\ "company_id" \in client.mappers
     /\ (pc \in {"s8_super", "done"}) => verdict[1] = "verified"

\* C12 as stated: in each script no mutating request has been sent when the
\* crm-web client is looked up, and a run that ends at that lookup because
\* the client is missing leaves the provider state as it was before the run.
C12_ClientResolvedFirst ==
  [][ (pc \in {"s5_client", "f2_client"}) =>
        /\ nmut = 0
        /\ (clients_l' = <<>> => pc' = "halt" /\ provider' = start)
    ]_vars

\* C12 amended: that holds of the fix script; the setup script looks the
\* client up at step 5, after the three role creates, five role deletes and
\* two user creates of steps 1-4 (and their role assignments and attribute
\* update), and a run that ends there keeps what those steps changed.
C12_ClientFirstInFixOnly ==
  [][ /\ (pc = "f2_client") =>
            /\ nmut = 0 /\ provider = start
            /\ (clients_l' = <<>> => pc' = "halt" /\ exit' = "sysexit" /\ provider' = start)
      /\ (pc = "s5_client") =>
            /\ nmut >= 10
            /\ (clients_l' = <<>> => pc' = "halt" /\ provider' = provider)
            /\ (~faulted /\ start[1] = {DefaultRole} =>
                   roles = {DefaultRole} \cup NewRoleNames /\ provider # start)
    ]_vars

\* A fix run stopped at its client lookup with the provider untouched.
C12_Witness ==
  /\ script = "fix" /\ pc = "halt" /\ exit = "sysexit" /\ report = "client not found"
  /\ clients_l = <<>> /\ ~client.exists
  /\ nreq = 1 /\ nmut = 0 /\ provider = start

\* C13: every role-mapping assignment or removal and every attribute PUT sent
\* for a target username goes to the user whose username is exactly the
\* target, and a user whose username only contains the target is not changed
\* by it.
C13_ExactTarget ==
  [][ /\ (pc = "s3_assign" /\ nmut' > nmut) => users_l[1].username = SuperName
      /\ (pc \in {"s4_assign", "s4_put"} /\ nmut' > nmut) => users_l[1].username = OfficeName
      /\ (pc \in {"s7_assign", "s7_remove", "s7_put", "f6_assign"} /\ nmut' > nmut) =>
            users_l[1].username = AdminName
      /\ (pc \in {"s3_assign", "s4_assign", "s4_put", "s7_assign", "s7_remove", "s7_put",
                  "f6_assign"}) => users'[OtherName] = users[OtherName]
    ]_vars

\* C14: a run that stops because the crm-web client, the admin@crm.local
\* user of the fix script, or a role whose id the next request needs is
\* missing stops through the explicit fatal exit (sys.exit(1) after a
\* diagnostic), never through an unhandled exception.
C14_FatalExitClean ==
  [][ /\ (pc \in {"s5_client", "f2_client"} /\ clients_l' = <<>>) =>
            pc' = "halt" /\ exit' = "sysexit"
      /\ (pc = "f4_find" /\ users_l' = <<>>) => pc' = "halt" /\ exit' = "sysexit"
      /\ (pc = "f5_role" /\ ~role_obj'.isRep) => pc' = "halt" /\ exit' = "sysexit"
      /\ (pc \in {"s3_assign", "s4_assign", "s7_assign"} /\ ~role_obj.isRep) =>
            pc' = "halt" /\ exit' = "sysexit"
    ]_vars

\* C15: in step 7 the removal of the owner_admin mapping is sent exactly when
\* admin@crm.local was found and the owner_admin lookup answered 200, and it
\* is sent for admin@crm.local; whatever the removal returns, the attribute
\* update follows; after a run in which every call succeeded admin@crm.local
\* does not hold owner_admin.
C15_LegacyCleanup ==
  [][ /\ (pc = "s7_old") => (pc' = "s7_remove" <=> code' = 200)
      /\ (pc = "s7_remove") =>
            /\ nmut' = nmut + 1 /\ code = 200
            /\ users[AdminName].exists /\ users_l[1].username = AdminName
            /\ pc' = "s7_put" /\ exit' = "running"
      /\ (script = "setup" /\ pc' = "done" /\ ~faulted') =>
            "owner_admin" \notin users'[AdminName].roles
    ]_vars

\* C16: when the realm PUT of step 6 is answered 204 the nine overlaid fields
\* of the realm hold their target values, and every other field holds the
\* value the GET just before returned; nothing else of the provider changes.
C16_RealmOverlay ==
  [][ (pc = "s6_put" /\ code' = 204) =>
        /\ realm'.accessTokenLifespan = 900
        /\ realm'.ssoSessionIdleTimeout = 1800
        /\ realm'.ssoSessionMaxLifespan = 43200
        /\ realm'.offlineSessionIdleTimeout = 2592000
        /\ realm'.passwordPolicy = "length(8) and maxLength(128) and notUsername"
        /\ realm'.bruteForceProtected = TRUE
        /\ realm'.maxFailureWaitSeconds = 900
        /\ realm'.failureFactor = 5
        /\ realm'.permanentLockout = FALSE
        /\ DOMAIN realm' = DOMAIN realm_l \cup DOMAIN realm_update
        /\ \A k \in DOMAIN realm_l \ DOMAIN realm_update : realm'[k] = realm_l[k]
        /\ realm_l = realm
        /\ UNCHANGED <<roles, users, client>>
    ]_vars

\* The realm was updated: its display name is the fetched one, its token
\* lifespan and lockout threshold are the new ones, a password policy is set.
C16_Witness ==
  /\ script = "setup" /\ pc = "s7_find" /\ code = 204
  /\ realm_l.accessTokenLifespan = 300 /\ realm.accessTokenLifespan = 900
  /\ realm_l.failureFactor = 30 /\ realm.failureFactor = 5
  /\ "passwordPolicy" \notin DOMAIN realm_l /\ "passwordPolicy" \in DOMAIN realm
  /\ realm.displayName = "CRM" /\ realm_l.displayName = "CRM"

\* C17: a verification step sends no admin API request and leaves roles,
\* users, client and realm as they are, whether it passes or fails; only the
\* next verification, the closing report or the end of the run follows it,
\* and a run that has ended takes no step.
C17_VerificationObserves ==
  [][ /\ (pc \in {"s8_admin", "s8_super", "f7_verify"}) =>
            /\ nreq' = nreq /\ nmut' = nmut /\ tokenReqs' = tokenReqs
            /\ provider' = provider
            /\ pc' \in {"s8_super", "done", "halt"}
      /\ pc \notin {"done", "halt"}
    ]_vars

\* A setup run ended after a failed check of admin@crm.local and a passed
\* check of superadmin.
C17_Witness ==
  /\ script = "setup" /\ pc = "done" /\ exit = "ok"
  /\ verdict[1] = "failed" /\ verdict[2] = "verified"
  /\ nreq > 20

\* C18 as stated: a role-mapping assignment or removal is sent only with a
\* role that a lookup returned and a user that a lookup returned, and after
\* a role lookup answered with an error status the run stops at its next
\* step without sending a request.
C18_ResolvedOrStopped ==
  [][ /\ (pc \in {"s3_assign", "s4_assign", "s7_assign", "s7_remove", "f6_assign"}
            /\ nmut' > nmut) =>
            role_obj.isRep /\ role_obj.id \in roles /\ users_l # <<>>
      /\ (pc = "f5_role" /\ code' # 200) => pc' = "halt" /\ nmut' = nmut
      /\ (pc \in {"s3_assign", "s4_assign", "s7_assign", "s7_remove", "s7_put"}
            /\ ~role_obj.isRep) =>
            pc' = "halt" /\ nreq' = nreq /\ users' = users
    ]_vars

\* C18 amended: the same, except that the run stops only after the failed
\* lookup of a role to be assigned (with an unhandled TypeError); after a
\* failed owner_admin lookup in step 7 the removal is skipped and the run
\* goes on with the attribute update.
C18_ResolvedOrSkipped ==
  [][ /\ (pc \in {"s3_assign", "s4_assign", "s7_assign", "s7_remove", "f6_assign"}
            /\ nmut' > nmut) =>
            role_obj.isRep /\ role_obj.id \in roles /\ code = 200 /\ users_l # <<>>
      /\ (pc = "f5_role" /\ code' # 200) =>
            pc' = "halt" /\ exit' = "traceback" /\ nmut' = nmut
      /\ (pc \in {"s3_assign", "s4_assign", "s7_assign"} /\ ~role_obj.isRep) =>
            pc' = "halt" /\ exit' = "traceback" /\ nreq' = nreq /\ users' = users
      /\ (pc = "s7_old" /\ code' # 200) =>
            pc' = "s7_put" /\ exit' = "running" /\ ~role_obj'.isRep
      /\ (pc = "s7_put" /\ ~role_obj.isRep) =>
            pc' = "s8_admin" /\ exit' = "running" /\ nmut' = nmut + 1
      /\ pc = "s7_remove" => role_obj.isRep
    ]_vars

\* A setup run stopped at the assignment of step 4 because company_admin
\* could not be looked up; the user had been found and no mapping was sent.
C18_Witness ==
  /\ script = "setup" /\ pc = "halt" /\ exit = "traceback"
  /\ code = 404 /\ ~role_obj.isRep /\ users_l # <<>>
  /\ users_l[1].username = OfficeName
  /\ "company_admin" \notin roles
  /\ "company_admin" \notin users[OfficeName].roles
====
